---- MODULE Spec2Model ----
(***************************************************************************)
(* Model of boxabirds/genai-cost-estimator:                                *)
(*   - meeting_analyzer.py : MeetingAnalyzer (_load_prices,                *)
(*     analyze_meeting) and main                                           *)
(*   - csv2json.py         : the CSV to JSON converter script              *)
(*                                                                         *)
(* Units.  Rates are kept in thousandths of a currency unit per 1000       *)
(* tokens (0.075 is 75, 0.30 is 300); a cost is an exact fraction of       *)
(* thousandths, so (100 / 1000) * 0.075 = 0.0075 is 7500 / 1000.           *)
(* Floating-point rounding is not modelled.                                *)
(*                                                                         *)
(* Text.  A Python str is a sequence of one-character strings.             *)
(***************************************************************************)
EXTENDS Integers, Sequences, FiniteSets, TLC

VARIABLES
    \* ---- meeting_analyzer.py ----
    pc,            \* position of the analyzer program
    api_key,       \* os.getenv("GOOGLE_API_KEY") is set
    price_file,    \* the price file on disk
    prices,        \* self.prices
    chunks,        \* chunks, the splitter's output, as chunk numbers
    idx,           \* position of the for loop in chunks
    response,      \* the loop's local response
    all_results,   \* all_results
    total_tokens,  \* total_tokens
    result,        \* what analyze_meeting returned
    error,         \* the exception that ended main / the run
    requests,      \* log: chunk numbers handed to generate_content, this run
    responses,     \* log: responses received, this run
    warnings,      \* log: chunk numbers whose warning was printed, this run
    runs,          \* number of analyze_meeting calls made on the analyzer
    \* ---- _load_prices on arbitrary tables ----
    lp_file,       \* the price file handed to _load_prices
    lp_out,        \* what _load_prices gave
    lp_pc,         \* "call" before _load_prices ran, "done" after
    \* ---- csv2json.py ----
    c_pc,          \* position of the converter script
    c_args,        \* parsed command line
    c_fs,          \* the file system: path -> content
    c_df,          \* df
    c_json,        \* json_output
    c_error,       \* the exception that ended the script
    c_parsed,      \* log: pd.read_csv was called
    c_written      \* log: paths opened for writing

avars == <<pc, api_key, price_file, prices, chunks, idx, response, all_results,
           total_tokens, result, error, requests, responses, warnings, runs>>
lvars == <<lp_file, lp_out, lp_pc>>
cvars == <<c_pc, c_args, c_fs, c_df, c_json, c_error, c_parsed, c_written>>
vars == <<avars, lvars, cvars>>

----------------------------------------------------------------------------
(* Bounds *)
MaxChunks == 3      \* longest chunk list the splitter yields
MaxRuns == 2        \* analyze_meeting calls per analyzer
MaxRecords == 2     \* records in a price table
MaxRows == 2        \* data rows in a CSV file

----------------------------------------------------------------------------
(* Sequences and text *)

RECURSIVE Flatten(_)
\* [x for r in seqs for x in r]
Flatten(seqs) ==
    IF seqs = <<>> THEN <<>> ELSE Head(seqs) \o Flatten(Tail(seqs))

RECURSIVE Join(_, _)
\* sep.join(strs)
Join(sep, strs) ==
    IF strs = <<>> THEN <<>>
    ELSE IF Len(strs) = 1 THEN Head(strs)
    ELSE Head(strs) \o sep \o Join(sep, Tail(strs))

RECURSIVE SumSeq(_)
SumSeq(s) == IF s = <<>> THEN 0 ELSE Head(s) + SumSeq(Tail(s))

Newline == <<"\n">>

----------------------------------------------------------------------------
(* JSON values of a response body *)

Fields == {"summary", "actions", "positives", "improvements"}

Str(s) == [t |-> "str", v |-> s]
List(s) == [t |-> "list", v |-> s]
Num == [t |-> "num", v |-> <<>>]
Absent == [t |-> "absent", v |-> <<>>]

\* a JSON object with the four keys (Absent: the key is not in the object)
Obj(s, a, p, i) ==
    [t |-> "obj",
     f |-> [k \in Fields |-> CASE k = "summary" -> s
                               [] k = "actions" -> a
                               [] k = "positives" -> p
                               [] k = "improvements" -> i]]
\* a JSON array
Arr == [t |-> "arr", f |-> [k \in Fields |-> Absent]]

\* response.text: either not JSON at all, or the text of a JSON document
NotJson == [json |-> FALSE, doc |-> Arr]
JsonText(d) == [json |-> TRUE, doc |-> d]

\* json.loads(text)
JsonLoads(text) ==
    IF text.json THEN [exc |-> "none", value |-> <<text.doc>>]
    ELSE [exc |-> "JSONDecodeError", value |-> <<>>]

\* a response: hasattr(response, 'usage_metadata'), its two counts, its text
Resp(has, p, c, text) ==
    [usage |-> has, prompt_token_count |-> p, candidates_token_count |-> c,
     text |-> text]

FullA == Obj(Str(<<"a">>), List(<<"a1">>), List(<<"p1">>), List(<<"i1">>))
FullB == Obj(Str(<<"b", "\n", "c">>), List(<<"a2", "a3">>), List(<<>>), List(<<"i2">>))
FullEmpty == Obj(Str(<<>>), List(<<>>), List(<<>>), List(<<>>))
Partial == Obj(Absent, List(<<"a4">>), List(<<"p2">>), Absent)
BadSummary == Obj(Num, List(<<"a5">>), Absent, Absent)

\* the responses the generation service is drawn from
Responses ==
    { Resp(TRUE, 100, 50, NotJson),          \* test_invalid_json_response
      Resp(FALSE, 0, 0, NotJson),
      Resp(TRUE, 100, 50, JsonText(FullA)),  \* mock_gemini_response
      Resp(TRUE, 30, 7, JsonText(FullB)),
      Resp(FALSE, 0, 0, JsonText(FullEmpty)),
      Resp(TRUE, 30, 7, JsonText(Partial)),
      Resp(TRUE, 100, 50, JsonText(Arr)),
      Resp(TRUE, 0, 0, JsonText(BadSummary)) }

NoResponse == Resp(FALSE, 0, 0, NotJson)

----------------------------------------------------------------------------
(* Price tables *)

Target == "Gemini 1.5 Pro"

\* a JSON number (in thousandths) or a JSON string of decimal digits
PNum(n) == [t |-> "num", n |-> n, s |-> <<>>]
PStr(s) == [t |-> "str", n |-> 0, s |-> s]

Digits == <<"0", "1", "2", "3", "4", "5", "6", "7", "8", "9">>
IsDigit(c) == \E d \in 1..10 : Digits[d] = c
DigitVal(c) == (CHOOSE d \in 1..10 : Digits[d] = c) - 1

RECURSIVE DigitsVal(_, _)
\* value of a digit string, most significant digit first
DigitsVal(acc, s) ==
    IF s = <<>> THEN acc ELSE DigitsVal(acc * 10 + DigitVal(Head(s)), Tail(s))

DotAt(s) == IF \E i \in 1..Len(s) : s[i] = "."
            THEN CHOOSE i \in 1..Len(s) : s[i] = "." /\ \A j \in 1..(i-1) : s[j] # "."
            ELSE Len(s) + 1

\* float(x), in thousandths: [exc, value]; decimal strings with at most three
\* fractional digits are the strings modelled
Float(x) ==
    IF x.t = "num" THEN [exc |-> "none", value |-> <<x.n>>]
    ELSE LET s == x.s
             d == DotAt(s)
             ip == SubSeq(s, 1, d - 1)
             fp == SubSeq(s, d + 1, Len(s))
             pad == fp \o [i \in 1..(3 - Len(fp)) |-> "0"]
         IN IF /\ Len(ip) + Len(fp) > 0
               /\ Len(fp) <= 3
               /\ \A i \in 1..Len(ip) : IsDigit(ip[i])
               /\ \A i \in 1..Len(fp) : IsDigit(fp[i])
            THEN [exc |-> "none", value |-> <<DigitsVal(0, ip) * 1000 + DigitsVal(0, pad)>>]
            ELSE [exc |-> "ValueError: could not convert string to float",
                  value |-> <<>>]

\* a rate as the file writes it (lit), with the number it denotes (val, in
\* thousandths); the loader reads lit only
NumLit(n) == [val |-> n, lit |-> PNum(n)]
StrLit(n, s) == [val |-> n, lit |-> PStr(s)]

\* a record of the price file; in_val and out_val are not read by the loader
PriceRecord(m, i, o) ==
    [Model |-> m, Input |-> i.lit, Output |-> o.lit, in_val |-> i.val, out_val |-> o.val]

NotFoundMsg == "ValueError: Gemini 1.5 Pro pricing not found in price file"

RECURSIVE LoadPricesMatchAny(_)
LoadPricesMatchAny(table) ==
    IF table = <<>> THEN [exc |-> NotFoundMsg, rates |-> <<>>]
    ELSE LET i == Float(Head(table).Input)
             o == Float(Head(table).Output)
         IN IF i.exc # "none" THEN [exc |-> i.exc, rates |-> <<>>]
            ELSE IF o.exc # "none" THEN [exc |-> o.exc, rates |-> <<>>]
            ELSE [exc |-> "none", rates |-> <<i.value[1], o.value[1]>>]

RECURSIVE LoadPrices(_)
\* the scan of _load_prices over the loaded list: [exc, rates]
LoadPrices(table) ==
    IF table = <<>> THEN [exc |-> NotFoundMsg, rates |-> <<>>]
    ELSE IF Head(table).Model = Target
    THEN LET i == Float(Head(table).Input)
             o == Float(Head(table).Output)
         IN IF i.exc # "none" THEN [exc |-> i.exc, rates |-> <<>>]
            ELSE IF o.exc # "none" THEN [exc |-> o.exc, rates |-> <<>>]
            ELSE [exc |-> "none", rates |-> <<i.value[1], o.value[1]>>]
    ELSE LoadPrices(Tail(table))

\* a price file: absent from disk, or holding a table
NoFile == [exists |-> FALSE, table |-> <<>>]
File(table) == [exists |-> TRUE, table |-> table]

\* _load_prices(price_file): open, json.load, scan
LoadPricesFile(file) ==
    IF ~file.exists THEN [exc |-> "FileNotFoundError", rates |-> <<>>]
    ELSE LoadPrices(file.table)

----------------------------------------------------------------------------
(* analyze_meeting: token accounting, merge, costs *)

NoTokens == [input |-> 0, output |-> 0]

AddUsageParsedOnly(tot, r) ==
    IF r.usage /\ r.text.json
    THEN [input |-> tot.input + r.prompt_token_count,
          output |-> tot.output + r.candidates_token_count]
    ELSE tot

AddUsagePromptTwice(tot, r) ==
    IF r.usage
    THEN [input |-> tot.input + r.prompt_token_count,
          output |-> tot.output + r.prompt_token_count]
    ELSE tot

\* the if hasattr(response, 'usage_metadata') block
AddUsage(tot, r) ==
    IF r.usage
    THEN [input |-> tot.input + r.prompt_token_count,
          output |-> tot.output + r.candidates_token_count]
    ELSE tot

\* r.get(k, default)
Get(r, k, default) == IF r.f[k].t = "absent" THEN default ELSE r.f[k]

ListFields == <<"actions", "positives", "improvements">>

SummaryOf(r) == Get(r, "summary", Str(<<>>)).v
ItemsOf(r, k) == Get(r, k, List(<<>>)).v

CombineSpaceJoined(results) ==
    [exc |-> "none",
     value |-> <<[summary |-> Join(<<" ">>, [i \in 1..Len(results) |-> SummaryOf(results[i])]),
                  actions |-> Flatten([i \in 1..Len(results) |-> ItemsOf(results[i], "actions")]),
                  positives |-> Flatten([i \in 1..Len(results) |-> ItemsOf(results[i], "positives")]),
                  improvements |-> Flatten([i \in 1..Len(results) |-> ItemsOf(results[i], "improvements")])]>>]

\* the combined_results dict display: [exc, value]
Combine(results) ==
    IF \E i \in 1..Len(results) : results[i].t # "obj"
    THEN [exc |-> "AttributeError", value |-> <<>>]
    ELSE IF \E i \in 1..Len(results) : Get(results[i], "summary", Str(<<>>)).t # "str"
    THEN [exc |-> "TypeError", value |-> <<>>]
    ELSE IF \E i \in 1..Len(results) : \E j \in 1..3 :
                Get(results[i], ListFields[j], List(<<>>)).t = "num"
    THEN [exc |-> "TypeError", value |-> <<>>]
    ELSE [exc |-> "none",
          value |-> <<[summary |-> Join(Newline, [i \in 1..Len(results) |-> SummaryOf(results[i])]),
                       actions |-> Flatten([i \in 1..Len(results) |-> ItemsOf(results[i], "actions")]),
                       positives |-> Flatten([i \in 1..Len(results) |-> ItemsOf(results[i], "positives")]),
                       improvements |-> Flatten([i \in 1..Len(results) |-> ItemsOf(results[i], "improvements")])]>>]

\* rates are quoted per this many tokens
PerTokens == 1000

\* a cost is the fraction num / den, in thousandths of a currency unit
Frac(n, d) == [num |-> n, den |-> d]
\* a + b, over the common denominator when the two are the same
FracAdd(a, b) ==
    IF a.den = b.den THEN Frac(a.num + b.num, a.den)
    ELSE Frac(a.num * b.den + b.num * a.den, a.den * b.den)

CostsInputRateOnly(tot, rates) ==
    [input_cost |-> Frac(tot.input * rates[1], PerTokens),
     output_cost |-> Frac(tot.output * rates[1], PerTokens),
     total_cost |-> FracAdd(Frac(tot.input * rates[1], PerTokens),
                            Frac(tot.output * rates[1], PerTokens))]

\* the costs dict display
Costs(tot, rates) ==
    [input_cost |-> Frac(tot.input * rates[1], PerTokens),
     output_cost |-> Frac(tot.output * rates[2], PerTokens),
     total_cost |-> FracAdd(Frac(tot.input * rates[1], PerTokens),
                            Frac(tot.output * rates[2], PerTokens))]

----------------------------------------------------------------------------
(* The analyzer program: main, __init__, analyze_meeting *)

NoPrices == <<>>
NoResult == <<>>

\* the price files the analyzer is started with
PriceFiles ==
    { NoFile,
      File(<<PriceRecord("Wrong Model", NumLit(1000), NumLit(1000))>>),  \* test_gemini_price_not_found
      File(<<PriceRecord("GPT-4o", NumLit(2500), NumLit(10000)),
             PriceRecord(Target, NumLit(75), NumLit(300))>>),            \* the price_file fixture
      File(<<PriceRecord(Target, StrLit(1250, <<"1", ".", "2", "5">>), StrLit(5000, <<"5">>))>>),
      File(<<PriceRecord(Target, NumLit(0), NumLit(0))>>) }

\* the transcripts: absent from disk, or split by the splitter into n chunks
Transcripts == [exists : {TRUE}, n : 0..MaxChunks] \cup {[exists |-> FALSE, n |-> 0]}

AInit ==
    /\ pc = "main"
    /\ api_key \in BOOLEAN
    /\ price_file \in PriceFiles
    /\ prices = NoPrices
    /\ chunks = <<>>
    /\ idx = 1
    /\ response = NoResponse
    /\ all_results = <<>>
    /\ total_tokens = NoTokens
    /\ result = NoResult
    /\ error = "none"
    /\ requests = <<>>
    /\ responses = <<>>
    /\ warnings = <<>>
    /\ runs = 0

\* main: GOOGLE_API_KEY is not set
MainNoKey ==
    /\ pc = "main"
    /\ ~api_key
    /\ pc' = "raised"
    /\ error' = "ValueError: Please set GOOGLE_API_KEY environment variable"
    /\ UNCHANGED <<api_key, price_file, prices, chunks, idx, response, all_results,
                   total_tokens, result, requests, responses, warnings, runs>>

\* MeetingAnalyzer.__init__
Construct ==
    /\ pc = "main"
    /\ api_key
    /\ LET loaded == LoadPricesFile(price_file)
       IN IF loaded.exc = "none"
          THEN /\ prices' = loaded.rates
               /\ pc' = "ready"
               /\ error' = error
          ELSE /\ prices' = prices
               /\ pc' = "raised"
               /\ error' = loaded.exc
    /\ UNCHANGED <<api_key, price_file, chunks, idx, response, all_results,
                   total_tokens, result, requests, responses, warnings, runs>>

\* analyze_meeting up to the loop: read, split, fresh accumulators
AnalyzeMeeting ==
    /\ pc \in {"ready", "returned", "aborted"}
    /\ runs < MaxRuns
    /\ runs' = runs + 1
    /\ \E t \in Transcripts :
         IF t.exists
         THEN /\ chunks' = [i \in 1..t.n |-> i]
              /\ pc' = "loop"
              /\ error' = "none"
         ELSE /\ chunks' = <<>>
              /\ pc' = "aborted"
              /\ error' = "FileNotFoundError"
    /\ idx' = 1
    /\ response' = NoResponse
    /\ all_results' = <<>>
    /\ total_tokens' = NoTokens
    /\ result' = NoResult
    /\ requests' = <<>>
    /\ responses' = <<>>
    /\ warnings' = <<>>
    /\ UNCHANGED <<api_key, price_file, prices>>

\* the call self.model.generate_content(prompt) for the next chunk
IssueRequest ==
    /\ pc = "loop"
    /\ idx <= Len(chunks)
    /\ requests' = Append(requests, chunks[idx])
    /\ pc' = "awaiting"
    /\ UNCHANGED <<api_key, price_file, prices, chunks, idx, response, all_results,
                   total_tokens, result, error, responses, warnings, runs>>

\* generate_content returns
ReceiveResponse ==
    /\ pc = "awaiting"
    /\ \E r \in Responses :
         /\ response' = r
         /\ responses' = Append(responses, r)
    /\ pc' = "count"
    /\ UNCHANGED <<api_key, price_file, prices, chunks, idx, all_results,
                   total_tokens, result, error, requests, warnings, runs>>

ServiceErrorSwallowed ==
    /\ pc = "awaiting"
    /\ idx' = idx + 1
    /\ pc' = "loop"
    /\ UNCHANGED <<api_key, price_file, prices, chunks, response, all_results,
                   total_tokens, result, error, requests, responses, warnings, runs>>

\* generate_content raises: nothing in analyze_meeting or main catches it
ServiceError ==
    /\ pc = "awaiting"
    /\ pc' = "aborted"
    /\ error' = "ServiceError"
    /\ UNCHANGED <<api_key, price_file, prices, chunks, idx, response, all_results,
                   total_tokens, result, requests, responses, warnings, runs>>

\* the usage_metadata block
CountTokens ==
    /\ pc = "count"
    /\ total_tokens' = AddUsage(total_tokens, response)
    /\ pc' = "parse"
    /\ UNCHANGED <<api_key, price_file, prices, chunks, idx, response, all_results,
                   result, error, requests, responses, warnings, runs>>

ParseResultRetry ==
    /\ pc = "parse"
    /\ LET parsed == JsonLoads(response.text)
       IN IF parsed.exc = "none"
          THEN /\ all_results' = Append(all_results, parsed.value[1])
               /\ warnings' = warnings
               /\ idx' = idx + 1
          ELSE /\ all_results' = all_results
               /\ warnings' = Append(warnings, chunks[idx])
               /\ idx' = idx
    /\ pc' = "loop"
    /\ UNCHANGED <<api_key, price_file, prices, chunks, response, total_tokens,
                   result, error, requests, responses, runs>>

ParseResultAppendEmpty ==
    /\ pc = "parse"
    /\ LET parsed == JsonLoads(response.text)
       IN IF parsed.exc = "none"
          THEN /\ all_results' = Append(all_results, parsed.value[1])
               /\ warnings' = warnings
          ELSE /\ all_results' = Append(all_results, Obj(Absent, Absent, Absent, Absent))
               /\ warnings' = Append(warnings, chunks[idx])
    /\ idx' = idx + 1
    /\ pc' = "loop"
    /\ UNCHANGED <<api_key, price_file, prices, chunks, response, total_tokens,
                   result, error, requests, responses, runs>>

\* the try / except json.JSONDecodeError block, then on to the next chunk
ParseResult ==
    /\ pc = "parse"
    /\ LET parsed == JsonLoads(response.text)
       IN IF parsed.exc = "none"
          THEN /\ all_results' = Append(all_results, parsed.value[1])
               /\ warnings' = warnings
          ELSE /\ all_results' = all_results
               /\ warnings' = Append(warnings, chunks[idx])
    /\ idx' = idx + 1
    /\ pc' = "loop"
    /\ UNCHANGED <<api_key, price_file, prices, chunks, response, total_tokens,
                   result, error, requests, responses, runs>>

\* after the loop: combine, cost, return
CombineAndReturn ==
    /\ pc = "loop"
    /\ idx > Len(chunks)
    /\ LET combined == Combine(all_results)
       IN IF combined.exc = "none"
          THEN /\ result' = <<[results |-> combined.value[1],
                               costs |-> Costs(total_tokens, prices)]>>
               /\ pc' = "returned"
               /\ error' = error
          ELSE /\ result' = result
               /\ pc' = "aborted"
               /\ error' = combined.exc
    /\ UNCHANGED <<api_key, price_file, prices, chunks, idx, response, all_results,
                   total_tokens, requests, responses, warnings, runs>>

LInitIdle == lp_file = NoFile /\ lp_out = [exc |-> "none", rates |-> <<>>] /\ lp_pc = "idle"
CInitIdle ==
    /\ c_pc = "idle"
    /\ c_args = [source |-> "none", output |-> "none"]
    /\ c_fs = <<>>
    /\ c_df = <<>>
    /\ c_json = <<>>
    /\ c_error = "none"
    /\ c_parsed = FALSE
    /\ c_written = <<>>

Init == AInit /\ LInitIdle /\ CInitIdle

Next ==
    \/ MainNoKey /\ UNCHANGED <<lvars, cvars>>
    \/ Construct /\ UNCHANGED <<lvars, cvars>>
    \/ AnalyzeMeeting /\ UNCHANGED <<lvars, cvars>>
    \/ IssueRequest /\ UNCHANGED <<lvars, cvars>>
    \/ ReceiveResponse /\ UNCHANGED <<lvars, cvars>>
    \/ ServiceError /\ UNCHANGED <<lvars, cvars>>
    \/ CountTokens /\ UNCHANGED <<lvars, cvars>>
    \/ ParseResult /\ UNCHANGED <<lvars, cvars>>
    \/ CombineAndReturn /\ UNCHANGED <<lvars, cvars>>

Spec == Init /\ [][Next]_vars

----------------------------------------------------------------------------
(* _load_prices on arbitrary well-formed price files *)

RateLits ==
    { NumLit(75),
      StrLit(75, <<"0", ".", "0", "7", "5">>),
      StrLit(300, <<".", "3">>),
      StrLit(2000, <<"2">>),
      NumLit(0) }

ModelNames == {Target, "Wrong Model", "gemini 1.5 pro"}

PriceRecords ==
    { PriceRecord(m, i, o) :
        m \in ModelNames, i \in RateLits, o \in {r \in RateLits : r.val # 75} }

SeqsUpTo(S, n) == UNION { [1..k -> S] : k \in 0..n }

LInit ==
    /\ lp_file \in {NoFile} \cup { File(t) : t \in SeqsUpTo(PriceRecords, MaxRecords) }
    /\ lp_out = [exc |-> "none", rates |-> <<>>]
    /\ lp_pc = "call"

\* self.prices = self._load_prices(price_file)
LoadCall ==
    /\ lp_pc = "call"
    /\ lp_out' = LoadPricesFile(lp_file)
    /\ lp_pc' = "done"
    /\ UNCHANGED lp_file

AInitIdle ==
    /\ pc = "idle"
    /\ api_key = FALSE
    /\ price_file = NoFile
    /\ prices = NoPrices
    /\ chunks = <<>>
    /\ idx = 1
    /\ response = NoResponse
    /\ all_results = <<>>
    /\ total_tokens = NoTokens
    /\ result = NoResult
    /\ error = "none"
    /\ requests = <<>>
    /\ responses = <<>>
    /\ warnings = <<>>
    /\ runs = 0

InitPrices == AInitIdle /\ LInit /\ CInitIdle
NextPrices == LoadCall /\ UNCHANGED <<avars, cvars>>
SpecPrices == InitPrices /\ [][NextPrices]_vars

----------------------------------------------------------------------------
(* csv2json.py *)

Cwd == "/cwd"

\* a command-line path argument: a file name in the working directory
Arg(stem, suffix) == [given |-> TRUE, stem |-> stem, suffix |-> suffix]
NoArg == [given |-> FALSE, stem |-> "", suffix |-> ""]

\* Path(arg).resolve()
Resolve(a) == [dir |-> Cwd, stem |-> a.stem, suffix |-> a.suffix]
\* path.with_suffix(".json")
WithSuffixJson(path) == [path EXCEPT !.suffix = ".json"]

\* file contents: absent, CSV text (header line and data lines of cells), or
\* JSON text (the records written)
Absentfile == [exists |-> FALSE, kind |-> "none", header |-> <<>>, rows |-> <<>>]
CsvFile(h, rows) == [exists |-> TRUE, kind |-> "csv", header |-> h, rows |-> rows]
JsonFile(h, rows) == [exists |-> TRUE, kind |-> "json", header |-> h, rows |-> rows]

Cells == {"1", "2", "x"}
IsNumeric(c) == c \in {"1", "2"}

\* pd.read_csv: [exc, df]; a column is numeric when every cell of it is
ReadCsv(file) ==
    IF ~file.exists THEN [exc |-> "FileNotFoundError", df |-> <<>>]
    ELSE IF file.header = <<>> THEN [exc |-> "EmptyDataError", df |-> <<>>]
    ELSE [exc |-> "none",
          df |-> <<[columns |-> file.header,
                    dtypes |-> [j \in 1..Len(file.header) |->
                                  IF \A i \in 1..Len(file.rows) : IsNumeric(file.rows[i][j])
                                  THEN "int64" ELSE "object"],
                    values |-> file.rows]>>]

\* df.to_json(orient="records", indent=4): one record per row, in row order,
\* each cell tagged with its JSON type
ToJson(df) ==
    JsonFile(df.columns,
             [i \in 1..Len(df.values) |->
                [j \in 1..Len(df.columns) |->
                   <<IF df.dtypes[j] = "int64" THEN "number" ELSE "string",
                     df.values[i][j]>>]])

SourcePath == Resolve(c_args.source)
OutputPath ==
    IF c_args.output.given THEN Resolve(c_args.output) ELSE WithSuffixJson(SourcePath)

CPaths == { Resolve(Arg(st, su)) : st \in {"data", "out"}, su \in {".csv", ".json"} }

CsvFiles ==
    {CsvFile(<<>>, <<>>)} \cup
    { CsvFile(<<"a", "b">>, rows) : rows \in SeqsUpTo([1..2 -> Cells], MaxRows) }

CInit ==
    /\ c_pc = "start"
    /\ c_args \in [source : {Arg("data", ".csv")}, output : {NoArg, Arg("out", ".json")}]
    /\ \E src \in CsvFiles \cup {Absentfile} :
       \E old \in {Absentfile, JsonFile(<<"a">>, <<>>)} :
         c_fs = [q \in CPaths |->
                   IF q = Resolve(Arg("data", ".csv")) THEN src
                   ELSE IF q = Resolve(Arg("data", ".json")) \/ q = Resolve(Arg("out", ".json"))
                   THEN old
                   ELSE Absentfile]
    /\ c_df = <<>>
    /\ c_json = <<>>
    /\ c_error = "none"
    /\ c_parsed = FALSE
    /\ c_written = <<>>

CResolveNoCheck ==
    /\ c_pc = "start"
    /\ c_pc' = "resolved"
    /\ UNCHANGED <<c_args, c_fs, c_df, c_json, c_error, c_parsed, c_written>>

\* resolve the paths; the source must exist
CResolve ==
    /\ c_pc = "start"
    /\ IF ~c_fs[SourcePath].exists
       THEN c_pc' = "raised" /\ c_error' = "FileNotFoundError"
       ELSE c_pc' = "resolved" /\ c_error' = c_error
    /\ UNCHANGED <<c_args, c_fs, c_df, c_json, c_parsed, c_written>>

\* df = pd.read_csv(source_path)
CReadCsv ==
    /\ c_pc = "resolved"
    /\ c_parsed' = TRUE
    /\ LET r == ReadCsv(c_fs[SourcePath])
       IN IF r.exc = "none"
          THEN c_df' = r.df /\ c_pc' = "read" /\ c_error' = c_error
          ELSE c_df' = c_df /\ c_pc' = "raised" /\ c_error' = r.exc
    /\ UNCHANGED <<c_args, c_fs, c_json, c_written>>

\* json_output = df.to_json(orient="records", indent=4)
CToJson ==
    /\ c_pc = "read"
    /\ c_json' = <<ToJson(c_df[1])>>
    /\ c_pc' = "converted"
    /\ UNCHANGED <<c_args, c_fs, c_df, c_error, c_parsed, c_written>>

\* with open(output_path, "w") as f: f.write(json_output)
CWrite ==
    /\ c_pc = "converted"
    /\ c_fs' = [c_fs EXCEPT ![OutputPath] = c_json[1]]
    /\ c_written' = Append(c_written, OutputPath)
    /\ c_pc' = "done"
    /\ UNCHANGED <<c_args, c_df, c_json, c_error, c_parsed>>

InitConv == AInitIdle /\ LInitIdle /\ CInit
NextConv ==
    \/ CResolve /\ UNCHANGED <<avars, lvars>>
    \/ CReadCsv /\ UNCHANGED <<avars, lvars>>
    \/ CToJson /\ UNCHANGED <<avars, lvars>>
    \/ CWrite /\ UNCHANGED <<avars, lvars>>
SpecConv == InitConv /\ [][NextConv]_vars

----------------------------------------------------------------------------
(* Vocabulary of the properties.  These read the inputs (the responses the  *)
(* service gave, the price file) and state what the outputs must be; they   *)
(* use none of the operators that model the code.                           *)

AllButLast(s) == IF s = <<>> THEN s ELSE SubSeq(s, 1, Len(s) - 1)

\* responses whose token counts the loop has been over
Counted == IF pc = "count" THEN AllButLast(responses) ELSE responses
\* responses whose parse step is over
Processed == IF pc \in {"count", "parse"} THEN AllButLast(responses) ELSE responses

IsJson(r) == r.text.json
IsUnparseable(r) == ~r.text.json

\* the response is a JSON object with a text summary and three lists
IsFourField(r) ==
    /\ r.text.json
    /\ r.text.doc.t = "obj"
    /\ r.text.doc.f["summary"].t = "str"
    /\ \A k \in {"actions", "positives", "improvements"} : r.text.doc.f[k].t = "list"

ReportedPrompt(rs) ==
    SumSeq([i \in 1..Len(rs) |-> IF rs[i].usage THEN rs[i].prompt_token_count ELSE 0])
ReportedCandidates(rs) ==
    SumSeq([i \in 1..Len(rs) |-> IF rs[i].usage THEN rs[i].candidates_token_count ELSE 0])

\* what a parsed response says for a key (nothing when the key is missing)
Said(r, k) == r.text.doc.f[k].v

\* total length of the first k - 1 parts
Off(parts, k) == SumSeq([i \in 1..(k - 1) |-> Len(parts[i])])

\* m is the parts one after the other
IsConcatOf(m, parts) ==
    /\ Len(m) = Off(parts, Len(parts) + 1)
    /\ \A k \in 1..Len(parts) :
         SubSeq(m, Off(parts, k) + 1, Off(parts, k) + Len(parts[k])) = parts[k]

\* m is the parts in order with exactly one newline between neighbours
IsNewlineJoinOf(m, parts) ==
    IF parts = <<>> THEN m = <<>>
    ELSE /\ Len(m) = Off(parts, Len(parts) + 1) + (Len(parts) - 1)
         /\ \A k \in 1..Len(parts) :
              SubSeq(m, Off(parts, k) + k, Off(parts, k) + k - 1 + Len(parts[k])) = parts[k]
         /\ \A k \in 1..(Len(parts) - 1) : m[Off(parts, k + 1) + k] = "\n"

\* the returned merge is the merge of exactly the responses rs
IsMergeOf(merged, rs) ==
    /\ IsNewlineJoinOf(merged.summary, [i \in 1..Len(rs) |-> Said(rs[i], "summary")])
    /\ IsConcatOf(merged.actions, [i \in 1..Len(rs) |-> Said(rs[i], "actions")])
    /\ IsConcatOf(merged.positives, [i \in 1..Len(rs) |-> Said(rs[i], "positives")])
    /\ IsConcatOf(merged.improvements, [i \in 1..Len(rs) |-> Said(rs[i], "improvements")])

Returned == pc = "returned" /\ Len(result) = 1
Merged == result[1].results
CostsOut == result[1].costs

\* the record of the price file whose Model is the target model
HasTarget(file) == file.exists /\ \E i \in 1..Len(file.table) : file.table[i].Model = Target
TargetRecord(file) ==
    file.table[CHOOSE i \in 1..Len(file.table) :
                 /\ file.table[i].Model = Target
                 /\ \A j \in 1..(i - 1) : file.table[j].Model # Target]

InRun == pc \in {"loop", "awaiting", "count", "parse", "returned", "aborted"}

----------------------------------------------------------------------------
(* C1 *)

\* what C1 says of every state of a run: a response that is not JSON adds
\* nothing to all_results, does not end the run, and its counts are in the totals
C1_State ==
    InRun =>
      /\ all_results = [i \in 1..Len(SelectSeq(Processed, IsJson)) |->
                          SelectSeq(Processed, IsJson)[i].text.doc]
      /\ total_tokens.input = ReportedPrompt(Counted)
      /\ total_tokens.output = ReportedCandidates(Counted)
      /\ error # "JSONDecodeError"
      /\ (pc = "loop" => idx = Len(responses) + 1)
      /\ (Returned => /\ requests = chunks
                      /\ Len(responses) = Len(chunks)
                      /\ IsMergeOf(Merged, SelectSeq(responses, IsJson)))

\* the run of test_invalid_json_response: one chunk, not JSON, tokens reported
OnlyChunkFailed ==
    /\ Returned
    /\ Len(responses) = 1
    /\ IsUnparseable(responses[1])
    /\ responses[1].usage
    /\ responses[1].prompt_token_count > 0
    /\ responses[1].candidates_token_count > 0

EmptyMerge == [summary |-> <<>>, actions |-> <<>>, positives |-> <<>>, improvements |-> <<>>]

\* C1 as stated: in every run a chunk whose response is not parseable JSON
\* contributes nothing to the merge, the run goes on, its token counts are
\* added; and a run whose only chunk fails with non-zero counts returns the
\* empty merge and total_cost > 0
C1_AsStated ==
    /\ C1_State
    /\ (OnlyChunkFailed => Merged = EmptyMerge /\ CostsOut.total_cost.num > 0)

\* C1 amended: the same, with total_cost > 0 only when the loaded rates are
\* not both zero
C1_Unparseable ==
    /\ C1_State
    /\ (OnlyChunkFailed =>
          /\ Merged = EmptyMerge
          /\ (prices[1] > 0 \/ prices[2] > 0 => CostsOut.total_cost.num > 0)
          /\ (prices[1] = 0 /\ prices[2] = 0 => CostsOut.total_cost.num = 0))

C1_Witness ==
    /\ OnlyChunkFailed
    /\ prices = <<75, 300>>
    /\ total_tokens = [input |-> 100, output |-> 50]

----------------------------------------------------------------------------
(* C2 *)

IsMalformed(r) == ~IsFourField(r)

\* C2 as stated: a response that is not JSON, or is JSON of another shape than
\* the four fields, never ends the run; its warning is printed; it adds
\* nothing to the merge
C2_MalformedRecovered ==
    /\ (pc = "aborted" => error \in {"ServiceError", "FileNotFoundError"})
    /\ (pc \in {"returned", "aborted"} =>
          \A i \in 1..Len(Processed) :
            IsMalformed(Processed[i]) => \E w \in 1..Len(warnings) : warnings[w] = i)
    /\ (Returned => IsMergeOf(Merged, SelectSeq(responses, IsFourField)))

----------------------------------------------------------------------------
(* C3 *)

AllFourField == \A i \in 1..Len(responses) : IsFourField(responses[i])

\* C3: when every chunk's response parsed and carries the four fields, the run
\* returns, the summary is the chunk summaries joined by one newline in chunk
\* order, and each list is the chunk lists one after the other in chunk order
C3_MergeAllPresent ==
    Len(chunks) >= 1 /\ Len(responses) = Len(chunks) /\ AllFourField /\ InRun =>
      /\ pc # "aborted"
      /\ (Returned => IsMergeOf(Merged, responses))

C3_Witness ==
    /\ Returned
    /\ Len(chunks) = 3
    /\ AllFourField
    /\ responses[1].text.doc = FullB
    /\ responses[2].text.doc = FullA
    /\ responses[3].text.doc = FullB
    /\ Merged.actions = <<"a2", "a3", "a1", "a2", "a3">>

----------------------------------------------------------------------------
(* C4 *)

\* C4: _load_prices gives exactly the Input and Output of the record whose
\* Model is "Gemini 1.5 Pro"; with no such record it raises the ValueError
\* "Gemini 1.5 Pro pricing not found in price file" and gives no rate at all
C4_LoadPricesExact ==
    lp_pc = "done" /\ lp_file.exists =>
      IF HasTarget(lp_file)
      THEN /\ lp_out.exc = "none"
           /\ lp_out.rates = <<TargetRecord(lp_file).in_val, TargetRecord(lp_file).out_val>>
      ELSE /\ lp_out.exc = "ValueError: Gemini 1.5 Pro pricing not found in price file"
           /\ lp_out.rates = <<>>

C4_Witness ==
    /\ lp_pc = "done"
    /\ Len(lp_file.table) = 2
    /\ lp_file.table[1].Model = "gemini 1.5 pro"
    /\ lp_file.table[1].in_val = 2000
    /\ lp_file.table[2].Model = Target
    /\ lp_file.table[2].Input = PStr(<<"0", ".", "0", "7", "5">>)
    /\ lp_file.table[2].Output = PStr(<<".", "3">>)
    /\ lp_out.rates = <<75, 300>>

----------------------------------------------------------------------------
(* C5 *)

C5_State ==
    /\ (InRun \/ Len(requests) > 0 =>
          /\ HasTarget(price_file)
          /\ prices = <<TargetRecord(price_file).in_val, TargetRecord(price_file).out_val>>)
    /\ (pc \in {"main", "raised"} => requests = <<>> /\ runs = 0)
    /\ Len(requests) <= Len(chunks)
    /\ \A i \in 1..Len(requests) : requests[i] = chunks[i]
    /\ (Returned => requests = chunks)

C5_Step ==
    requests' # requests =>
      \/ requests' = <<>> /\ runs' = runs + 1
      \/ /\ Len(requests) < Len(chunks)
         /\ requests' = Append(requests, chunks[Len(requests) + 1])
         /\ Len(responses) = Len(requests)
         /\ total_tokens.input = ReportedPrompt(responses)
         /\ total_tokens.output = ReportedCandidates(responses)
         /\ Len(all_results) + Len(warnings) = Len(responses)

\* C5: requests are issued only once the prices are loaded; the requests of a
\* run are the chunks, once each, left to right; a request is issued only
\* when every earlier response has been received, counted and parsed; no
\* chunk is requested again
C5_OneRequestPerChunkInOrder == [](C5_State) /\ [][C5_Step]_vars

C5_Witness ==
    /\ Returned
    /\ requests = <<1, 2, 3>>
    /\ IsUnparseable(responses[2])
    /\ warnings = <<2>>

----------------------------------------------------------------------------
(* C6 *)

C6_State ==
    /\ Len(requests) <= Len(responses) + 1
    /\ (Len(requests) = Len(responses) + 1 => pc \in {"awaiting", "aborted"})
    /\ (pc = "aborted" /\ Len(requests) = Len(responses) + 1 =>
          error = "ServiceError" /\ result = <<>>)

C6_Step == pc = "aborted" => runs' = runs + 1 /\ requests' = <<>> /\ result' = <<>>

\* C6: a request that raises ends the run with that error: the run issues no
\* further request and returns nothing, whatever was processed before
C6_ServiceErrorAborts == [](C6_State) /\ [][C6_Step]_vars

C6_Witness ==
    /\ pc = "aborted"
    /\ error = "ServiceError"
    /\ Len(chunks) = 3
    /\ requests = <<1, 2>>
    /\ Len(all_results) = 1
    /\ total_tokens.input > 0
    /\ result = <<>>

----------------------------------------------------------------------------
(* C7 *)

\* C7: the returned input_cost is (sum of prompt counts / 1000) x Input rate,
\* output_cost is (sum of candidate counts / 1000) x Output rate, total_cost
\* is their sum; 100 and 50 tokens at 0.075 and 0.30 give 0.0075, 0.015, 0.0225
C7_Costs ==
    Returned =>
      LET tin == ReportedPrompt(responses)
          tout == ReportedCandidates(responses)
          rec == TargetRecord(price_file)
          ic == CostsOut.input_cost
          oc == CostsOut.output_cost
          tc == CostsOut.total_cost
      IN /\ HasTarget(price_file)
         /\ ic.den = 1000 /\ oc.den = 1000 /\ tc.den = 1000
         /\ ic.num = tin * rec.in_val
         /\ oc.num = tout * rec.out_val
         /\ tc.num = ic.num + oc.num
         /\ (tin = 100 /\ tout = 50 /\ rec.in_val = 75 /\ rec.out_val = 300 =>
               /\ ic.num * 10 = 75 * ic.den
               /\ oc.num = 15 * oc.den
               /\ tc.num * 10 = 225 * tc.den)

C7_Witness ==
    /\ Returned
    /\ Len(responses) = 1
    /\ ReportedPrompt(responses) = 100
    /\ ReportedCandidates(responses) = 50
    /\ TargetRecord(price_file).in_val = 75
    /\ TargetRecord(price_file).out_val = 300
    /\ CostsOut.total_cost.num * 10 = 225 * CostsOut.total_cost.den

----------------------------------------------------------------------------
(* C8 *)

C8_State ==
    InRun =>
      /\ total_tokens.input = ReportedPrompt(Counted)
      /\ total_tokens.output = ReportedCandidates(Counted)
      /\ total_tokens.input >= 0 /\ total_tokens.output >= 0
      /\ (responses = <<>> => total_tokens = [input |-> 0, output |-> 0])
      /\ (pc = "parse" /\ ~response.usage =>
            /\ total_tokens.input = ReportedPrompt(AllButLast(responses))
            /\ total_tokens.output = ReportedCandidates(AllButLast(responses)))

C8_Step ==
    IF runs' = runs
    THEN /\ total_tokens'.input >= total_tokens.input
         /\ total_tokens'.output >= total_tokens.output
    ELSE total_tokens' = [input |-> 0, output |-> 0]

\* C8: the totals are the sums of the counts reported by the responses gone
\* over so far, a response without usage metadata adding nothing; they never
\* decrease within a run and are zero when a run starts
C8_TokenAccumulator == [](C8_State) /\ [][C8_Step]_vars

C8_Witness ==
    /\ runs = 2
    /\ pc = "parse"
    /\ Len(responses) = 2
    /\ responses[1].usage
    /\ ~response.usage
    /\ total_tokens = [input |-> 30, output |-> 7]

----------------------------------------------------------------------------
(* C9 *)

C9_State ==
    ~c_fs[SourcePath].exists /\ c_pc # "idle" =>
      /\ c_pc \in {"start", "raised"}
      /\ (c_pc = "raised" => c_error = "FileNotFoundError")
      /\ ~c_parsed
      /\ c_written = <<>>

C9_Step == ~c_fs[SourcePath].exists => c_fs' = c_fs

\* C9: with a source path that does not exist the converter raises the
\* not-found error before read_csv is called, and the file system is left as
\* it was, with or without --output
C9_MissingSource == [](C9_State) /\ [][C9_Step]_vars

C9_Witness ==
    /\ c_pc = "raised"
    /\ c_error = "FileNotFoundError"
    /\ c_args.output.given
    /\ ~c_fs[SourcePath].exists
    /\ c_fs[OutputPath] = JsonFile(<<"a">>, <<>>)

----------------------------------------------------------------------------
(* C10 *)

\* C10: the merged summary is the newline-join of the summaries of exactly
\* the chunks that parsed: one newline fewer than parsed chunks, none for a
\* chunk that failed, wherever it stands
C10_FailedChunkLeftOut ==
    Returned =>
      LET ps == SelectSeq(responses, IsJson)
          parts == [i \in 1..Len(ps) |-> Said(ps[i], "summary")]
      IN /\ Len(all_results) = Len(ps)
         /\ IsNewlineJoinOf(Merged.summary, parts)
         /\ Len(Merged.summary) =
              Off(parts, Len(parts) + 1) + (IF Len(ps) <= 1 THEN 0 ELSE Len(ps) - 1)

C10_Witness ==
    /\ Returned
    /\ Len(responses) = 3
    /\ responses[1].text.doc = FullA /\ IsJson(responses[1])
    /\ IsUnparseable(responses[2])
    /\ responses[3].text.doc = FullA /\ IsJson(responses[3])
    /\ Merged.summary = <<"a", "\n", "a">>

====
